---- MODULE Spec2Model ----
(***************************************************************************)
(* Lab 4, "Top-p sampling generation and filling gaps with ngrams":        *)
(* src/lab_4_fill_words_by_ngrams/main.py.                                 *)
(*                                                                         *)
(* A text is a sequence of one-character strings.  A token is a word (a    *)
(* non-empty sequence of letters) or the end-of-word token EoW.  A token   *)
(* id is the token's position in the storage, counted from 0.              *)
(* A probability is a whole number of tenths (5 is 0.5, 10 is 1.0); a      *)
(* distribution is a set of <<token id, probability>> pairs with distinct  *)
(* token ids, the items of the dictionary the language model returns.      *)
(* Sums of probabilities are exact here; the rounding of binary floating   *)
(* point is not modelled.                                                  *)
(***************************************************************************)
EXTENDS Integers, Sequences, FiniteSets, TLC

VARIABLES
    storage,        \* WordProcessor._storage: the tokens in order of their ids
    n_gram_size,    \* NGramLanguageModel: the order of the model
    lm,             \* NGramLanguageModel: answer of generate_next_token per context
    p_value,        \* TopPGenerator._p_value, in tenths
    pc,             \* position of the program: "idle" (between calls), "loop" and
                    \* "decode" (inside TopPGenerator.run), "done" (a call has ended)
    seq_len,        \* TopPGenerator.run: the local seq_len (tokens still to generate)
    encoded,        \* TopPGenerator.run: the local encoded
    steps,          \* history: per iteration of the while loop, the model's answer and the pick
    call,           \* history: the last operation called and its arguments
    ret             \* the outcome of the last operation: a value or the exception raised

vars == <<storage, n_gram_size, lm, p_value, pc, seq_len, encoded, steps, call, ret>>

(***************************************************************************)
(* Bounds.                                                                 *)
(***************************************************************************)
MaxSeqLen == 2
MaxN == 2
MaxTasks == 2

(***************************************************************************)
(* Characters and Python's str methods.                                    *)
(***************************************************************************)
IsAlpha(c) == c \in {"a", "b", "c", "A", "B", "C"}

LowerChar(c) ==
    CASE c = "A" -> "a" [] c = "B" -> "b" [] c = "C" -> "c" [] OTHER -> c

UpperChar(c) ==
    CASE c = "a" -> "A" [] c = "b" -> "B" [] c = "c" -> "C" [] OTHER -> c

\* str.lower()
Lower(text) == [i \in 1..Len(text) |-> LowerChar(text[i])]

\* str.capitalize(): the first character upper-cased, the rest lower-cased
Capitalize(text) ==
    [i \in 1..Len(text) |-> IF i = 1 THEN UpperChar(text[i]) ELSE LowerChar(text[i])]

\* str.split(): the maximal runs of non-blank characters, in order
RECURSIVE SplitFrom(_, _, _)
SplitFrom(text, i, word) ==
    IF i > Len(text)
    THEN IF word = <<>> THEN <<>> ELSE <<word>>
    ELSE IF text[i] = " "
         THEN (IF word = <<>> THEN <<>> ELSE <<word>>) \o SplitFrom(text, i + 1, <<>>)
         ELSE SplitFrom(text, i + 1, Append(word, text[i]))

Split(text) == SplitFrom(text, 1, <<>>)

\* ' '.join(words)
RECURSIVE JoinWords(_)
JoinWords(words) ==
    IF words = <<>> THEN <<>>
    ELSE IF Len(words) = 1 THEN words[1]
    ELSE words[1] \o <<" ">> \o JoinWords(Tail(words))

(***************************************************************************)
(* WordProcessor.                                                          *)
(***************************************************************************)
EoW == <<"<eow>">>

EndingSymbols == {"!", ".", "?"}

\* _tokenize, one word of text.lower().split(): the word without its
\* non-letters, followed by EoW when the word ends a sentence; nothing at all
\* when no letter is left
TokenizeWord(word) ==
    LET clear_word == SelectSeq(word, IsAlpha)
    IN  IF clear_word = <<>> THEN <<>>
        ELSE IF word[Len(word)] \in EndingSymbols
             THEN <<clear_word, EoW>>
             ELSE <<clear_word>>

RECURSIVE TokenizeWords(_)
TokenizeWords(words) ==
    IF words = <<>> THEN <<>>
    ELSE TokenizeWord(words[1]) \o TokenizeWords(Tail(words))

\* _tokenize (the text is not empty: encode has checked it)
Tokenize(text) == TokenizeWords(Split(Lower(text)))

\* _put: a new element gets the next id
Put(st, element) ==
    IF \E i \in 1..Len(st) : st[i] = element THEN st ELSE Append(st, element)

\* get_id: the id of a stored element
GetId(st, element) == (CHOOSE i \in 1..Len(st) : st[i] = element) - 1

RECURSIVE PutAll(_, _)
PutAll(st, tokens) ==
    IF tokens = <<>> THEN st ELSE PutAll(Put(st, tokens[1]), Tail(tokens))

\* encode: [ok, ids, storage]; not ok stands for the falsy result (None)
Encode(st, text) ==
    IF text = <<>> THEN [ok |-> FALSE, ids |-> <<>>, storage |-> st]
    ELSE LET tokens == Tokenize(text)
             st2 == PutAll(st, tokens)
         IN  IF tokens = <<>>
             THEN [ok |-> FALSE, ids |-> <<>>, storage |-> st]
             ELSE [ok |-> TRUE,
                   ids |-> [i \in 1..Len(tokens) |-> GetId(st2, tokens[i])],
                   storage |-> st2]

\* _postprocess_decoded_text, the sentences: ' '.join(decoded_corpus) split at
\* the end-of-word token, each part stripped (tokens are words or EoW, so the
\* split falls between tokens)
RECURSIVE Sentences(_, _)
Sentences(tokens, current) ==
    IF tokens = <<>> THEN <<JoinWords(current)>>
    ELSE IF tokens[1] = EoW
         THEN <<JoinWords(current)>> \o Sentences(Tail(tokens), <<>>)
         ELSE Sentences(Tail(tokens), Append(current, tokens[1]))

\* '. '.join(sentences)
RECURSIVE JoinSentences(_)
JoinSentences(sentences) ==
    IF Len(sentences) = 1 THEN sentences[1]
    ELSE sentences[1] \o <<".", " ">> \o JoinSentences(Tail(sentences))

\* _postprocess_decoded_text (decoded_corpus is not empty)
PostprocessDecodedText(decoded_corpus) ==
    LET sentences == Sentences(decoded_corpus, <<>>)
        text == JoinSentences([i \in 1..Len(sentences) |-> Capitalize(sentences[i])])
    IN  IF text[Len(text)] = " "
        THEN SubSeq(text, 1, Len(text) - 1)
        ELSE text \o <<".">>

\* decode: the text of the ids; <<>> stands for the falsy result (None)
Decode(st, ids) ==
    IF ids = <<>> \/ \E i \in 1..Len(ids) : ids[i] + 1 \notin 1..Len(st)
    THEN <<>>
    ELSE PostprocessDecodedText([i \in 1..Len(ids) |-> st[ids[i] + 1]])

(***************************************************************************)
(* NGramLanguageModel (lab_3_generate_by_ngrams, imported at line 11).     *)
(* An answer of generate_next_token is [none, d]: none stands for None,    *)
(* d is the distribution.  The model predicts from the preceding           *)
(* n_gram_size - 1 tokens; its table lm holds one answer for the context   *)
(* of no token and one per last token of a context.                        *)
(***************************************************************************)
NoTokens == [none |-> TRUE, d |-> {}]

Tokens(d) == [none |-> FALSE, d |-> d]

\* the distributions the tables below are made of: tokens 0 (EoW), 1 ("a"), 2 ("b")
DEmpty == {}
DExample == {<<1, 5>>, <<2, 3>>, <<0, 2>>}
DTie == {<<1, 5>>, <<2, 5>>}
DLow == {<<1, 3>>, <<2, 3>>}
DSureA == {<<1, 10>>}
DSureB == {<<2, 10>>}
DSureEoW == {<<0, 10>>}

\* a table: the answer for the empty context, then for the contexts ending in
\* token 0, 1, 2 and 3
LmTable(empty, t0, t1, t2) == <<empty, t0, t1, t2, Tokens(DEmpty)>>

\* the table's answer for a context (a sequence of tokens)
LmAnswer(table, context) ==
    IF context = <<>> THEN table[1] ELSE table[context[Len(context)] + 2]

\* the language models tried; token 3 ("c") is in no training text, so no
\* model has a continuation for it
LanguageModels ==
    { LmTable(Tokens(DExample), Tokens(DEmpty), Tokens(DExample), NoTokens),
      LmTable(Tokens(DSureA), Tokens(DSureA), Tokens(DSureB), Tokens(DSureEoW)),
      LmTable(Tokens(DTie), Tokens(DTie), Tokens(DLow), Tokens(DTie)),
      LmTable(NoTokens, Tokens(DExample), Tokens(DTie), Tokens(DExample)) }

\* generate_next_token(sequence)
GenerateNextToken(sequence) ==
    IF Len(sequence) < n_gram_size - 1 THEN NoTokens
    ELSE IF n_gram_size = 1 THEN LmAnswer(lm, <<>>)
    ELSE LmAnswer(lm, sequence)

(***************************************************************************)
(* Outcomes of a call: the exception raised, or the value returned.        *)
(***************************************************************************)
\* [kind, text, results, answers, number]: kind is "ok" or the exception; a
\* returned value sits in the field of its type, the other fields are blank
NoNumber == [num |-> 0, den |-> 0]

Outcome(kind, text, results, answers, number) ==
    [kind |-> kind, text |-> text, results |-> results, answers |-> answers,
     number |-> number]

Raise(error) == Outcome(error, <<>>, <<>>, <<>>, NoNumber)

ReturnText(text) == Outcome("ok", text, <<>>, <<>>, NoNumber)

ReturnResults(results) == Outcome("ok", <<>>, results, <<>>, NoNumber)

ReturnAnswers(answers) == Outcome("ok", <<>>, <<>>, answers, NoNumber)

ReturnNumber(number) == Outcome("ok", <<>>, <<>>, <<>>, number)

Running == Outcome("running", <<>>, <<>>, <<>>, NoNumber)

NoOutcome == Outcome("none", <<>>, <<>>, <<>>, NoNumber)

(***************************************************************************)
(* TopPGenerator.run.                                                      *)
(***************************************************************************)
\* the sort key (float(pair[1]), pair[0]) compared for reverse=True:
\* x comes no later than y
KeyGE_TiesAscending(x, y) == x[2] > y[2] \/ (x[2] = y[2] /\ x[1] <= y[1])

KeyGE(x, y) == x[2] > y[2] \/ (x[2] = y[2] /\ x[1] >= y[1])

\* sorted(list(tokens.items()), key=..., reverse=True)
RECURSIVE SortedTokens(_)
SortedTokens(d) ==
    IF d = {} THEN <<>>
    ELSE LET first == CHOOSE x \in d : \A y \in d : KeyGE(x, y)
         IN  <<first>> \o SortedTokens(d \ {first})

\* the for loop over sorted_tokens: the 1-based position at which
\* sum_probability reaches p, or 0 when the loop ends without break
RECURSIVE NucleusIndex(_, _, _, _)
NucleusIndex(sorted_tokens, p, index, sum_probability) ==
    IF index > Len(sorted_tokens) THEN 0
    ELSE LET sum == sum_probability + sorted_tokens[index][2]
         IN  IF sum >= p THEN index
             ELSE NucleusIndex(sorted_tokens, p, index + 1, sum)

\* sorted_tokens[:index + 1], the candidates of choice()
Candidates(d, p) ==
    LET sorted_tokens == SortedTokens(d)
        index == NucleusIndex(sorted_tokens, p, 1, 0)
    IN  {sorted_tokens[i] : i \in 1..index}

\* what one iteration of the while loop does with the model's answer
StepKind_EmptyRaises(tokens, p) ==
    IF tokens.none \/ tokens.d = {} THEN "raise"
    ELSE IF Candidates(tokens.d, p) = {} THEN "break"
    ELSE "append"

StepKind(tokens, p) ==
    IF tokens.none THEN "raise"
    ELSE IF tokens.d = {} THEN "break"
    ELSE IF Candidates(tokens.d, p) = {} THEN "break"
    ELSE "append"

\* the condition of the while loop
LoopContinues_OneMore(sl) == sl >= 0

LoopContinues(sl) == sl >= 1

\* encoded += (random_token[0],)
AppendToken(enc, random_token) == Append(enc, random_token[1])

\* the guard of run's first lines
ValidArguments_ZeroLength(sl, prompt) == prompt # <<>> /\ sl >= 0

ValidArguments(sl, prompt) == prompt # <<>> /\ sl > 0

Prompts ==
    { <<>>, <<"1">>, <<"a">>, <<"a", " ", "b">>, <<"B", ".">>, <<"c">> }

\* run, up to the while loop
TopPRun(sl, prompt) ==
    /\ pc = "idle"
    /\ call' = [op |-> "TopPGenerator.run", seq_len |-> sl, prompt |-> prompt]
    /\ steps' = <<>>
    /\ IF ~ValidArguments(sl, prompt)
       THEN /\ ret' = Raise("ValueError")
            /\ UNCHANGED storage
            /\ pc' = "done"
            /\ seq_len' = 0
            /\ encoded' = <<>>
       ELSE LET enc == Encode(storage, prompt)
            IN  /\ storage' = enc.storage
                /\ IF ~enc.ok
                   THEN /\ ret' = Raise("ValueError")
                        /\ pc' = "done"
                        /\ seq_len' = 0
                        /\ encoded' = <<>>
                   ELSE /\ ret' = Running
                        /\ pc' = IF LoopContinues(sl) THEN "loop" ELSE "decode"
                        /\ seq_len' = sl
                        /\ encoded' = enc.ids
    /\ UNCHANGED <<n_gram_size, lm, p_value>>

\* one iteration of the while loop
TopPIterate ==
    /\ pc = "loop"
    /\ LET tokens == GenerateNextToken(encoded)
           kind == StepKind(tokens, p_value)
       IN  CASE kind = "raise" ->
                  /\ steps' = Append(steps, [tokens |-> tokens, pick |-> <<>>])
                  /\ ret' = Raise("ValueError")
                  /\ pc' = "done"
                  /\ UNCHANGED <<seq_len, encoded>>
             [] kind = "break" ->
                  /\ steps' = Append(steps, [tokens |-> tokens, pick |-> <<>>])
                  /\ pc' = "decode"
                  /\ UNCHANGED <<seq_len, encoded, ret>>
             [] kind = "append" ->
                  \E random_token \in Candidates(tokens.d, p_value) :
                      /\ steps' = Append(steps, [tokens |-> tokens,
                                                 pick |-> <<random_token[1]>>])
                      /\ encoded' = AppendToken(encoded, random_token)
                      /\ seq_len' = seq_len - 1
                      /\ pc' = IF LoopContinues(seq_len - 1) THEN "loop" ELSE "decode"
                      /\ UNCHANGED ret
    /\ UNCHANGED <<storage, n_gram_size, lm, p_value, call>>

\* run, after the while loop
TopPReturn ==
    /\ pc = "decode"
    /\ LET decoded == Decode(storage, encoded)
       IN  ret' = IF decoded = <<>> THEN Raise("ValueError") ELSE ReturnText(decoded)
    /\ pc' = "done"
    /\ UNCHANGED <<storage, n_gram_size, lm, p_value, seq_len, encoded, steps, call>>

(***************************************************************************)
(* Generators as QualityChecker and GeneratorRuleStudent see them: run     *)
(* raises ValueError or returns a text.                                    *)
(***************************************************************************)
\* the texts a generator returns to QualityChecker: "", "a", "A.", "A a.", "A b."
GeneratedTexts ==
    { <<>>, <<"a">>, <<"A", ".">>, <<"A", " ", "a", ".">>, <<"A", " ", "b", ".">> }

\* the answers of count successive calls of run: each a text; the calls end
\* with the first that raises or returns no text
RECURSIVE OutcomeRuns(_, _)
OutcomeRuns(count, texts) ==
    IF count = 0 THEN {<<>>}
    ELSE {<<Raise("ValueError")>>, <<ReturnText(<<>>)>>}
         \cup {<<ReturnText(t)>> \o rest :
                  t \in texts \ {<<>>}, rest \in OutcomeRuns(count - 1, texts)}

\* GeneratorTypes: greedy, top_p, beam_search
GeneratorTypeIds == {0, 1, 2}

\* the dictionaries {numeric type: generator}, as the sequence of their keys
GeneratorDicts ==
    UNION { {g \in [1..k -> GeneratorTypeIds] : \A i, j \in 1..k : i # j => g[i] # g[j]}
            : k \in 0..Cardinality(GeneratorTypeIds) }

(***************************************************************************)
(* QualityChecker.                                                         *)
(* log(probability) is kept in thousandths, as the sum of the logarithms   *)
(* of the prime factors of probability/10, so that sums of logarithms are  *)
(* equal exactly when the products of the probabilities are.  A perplexity *)
(* is [num, den], standing for exp(num / (1000 * den)).                    *)
(***************************************************************************)
\* log(probability), in thousandths, for probability in 1..10 tenths
LogMilli(probability) ==
    LET log2 == 693
        log3 == 1099
        log5 == 1609
        log7 == 1946
        log10 == log2 + log5
    IN  CASE probability = 1 -> 0 - log10
          [] probability = 2 -> log2 - log10
          [] probability = 3 -> log3 - log10
          [] probability = 4 -> 2 * log2 - log10
          [] probability = 5 -> log5 - log10
          [] probability = 6 -> log2 + log3 - log10
          [] probability = 7 -> log7 - log10
          [] probability = 8 -> 3 * log2 - log10
          [] probability = 9 -> 2 * log3 - log10
          [] probability = 10 -> 0

\* generated_tokens.get(token): the probability, 0 standing for None
GetProbability(d, token) ==
    IF \E x \in d : x[1] = token THEN (CHOOSE x \in d : x[1] = token)[2] ELSE 0

\* the for loop of _calculate_perplexity from position index (counted from 0):
\* [ok, sum]; not ok when the model's answer for some context is None or empty
RECURSIVE SumLog(_, _, _)
SumLog(ids, index, sum_log) ==
    IF index >= Len(ids) THEN [ok |-> TRUE, sum |-> sum_log]
    ELSE LET context == SubSeq(ids, index - n_gram_size + 2, index)
             token == ids[index + 1]
             generated_tokens == GenerateNextToken(context)
             probability == GetProbability(generated_tokens.d, token)
         IN  IF generated_tokens.none \/ generated_tokens.d = {}
             THEN [ok |-> FALSE, sum |-> sum_log]
             ELSE SumLog(ids, index + 1,
                         IF probability # 0 THEN sum_log + LogMilli(probability)
                                            ELSE sum_log)

\* len(encoded) - n_gram_size
Denominator_OneLess(encoded_len, n) == encoded_len - n - 1

Denominator(encoded_len, n) == encoded_len - n

\* _calculate_perplexity: [kind, val, storage]
CalculatePerplexity(st, generated_text) ==
    IF generated_text = <<>>
    THEN [kind |-> "ValueError", val |-> <<>>, storage |-> st]
    ELSE LET enc == Encode(st, generated_text)
             sum_log == SumLog(enc.ids, n_gram_size - 1, 0)
             den == Denominator(Len(enc.ids), n_gram_size)
         IN  IF ~enc.ok THEN [kind |-> "ValueError", val |-> <<>>, storage |-> enc.storage]
             ELSE IF ~sum_log.ok
                  THEN [kind |-> "ValueError", val |-> <<>>, storage |-> enc.storage]
             ELSE IF sum_log.sum = 0
                  THEN [kind |-> "ValueError", val |-> <<>>, storage |-> enc.storage]
             ELSE IF den = 0
                  THEN [kind |-> "ZeroDivisionError", val |-> <<>>, storage |-> enc.storage]
             ELSE [kind |-> "ok",
                   val |-> [num |-> 0 - sum_log.sum, den |-> den],
                   storage |-> enc.storage]

\* comparison of two perplexities with positive den
PerplexityLess(a, b) == a.num * b.den < b.num * a.den

PerplexityEqual(a, b) == a.num * b.den = b.num * a.den

\* the sort key (dto.get_perplexity(), dto.get_type()): a comes no later than b
ResultKeyLE_NoTieBreak(a, b) ==
    PerplexityLess(a.perplexity, b.perplexity) \/ PerplexityEqual(a.perplexity, b.perplexity)

ResultKeyLE(a, b) ==
    \/ PerplexityLess(a.perplexity, b.perplexity)
    \/ PerplexityEqual(a.perplexity, b.perplexity) /\ a.type <= b.type

\* sorted(results, key=...): a stable sort, by insertion
RECURSIVE InsertResult(_, _)
InsertResult(sorted, dto) ==
    IF sorted = <<>> THEN <<dto>>
    ELSE IF ResultKeyLE(sorted[1], dto)
         THEN <<sorted[1]>> \o InsertResult(Tail(sorted), dto)
         ELSE <<dto>> \o sorted

RECURSIVE SortedResults(_)
SortedResults(results) ==
    IF results = <<>> THEN <<>>
    ELSE InsertResult(SortedResults(SubSeq(results, 1, Len(results) - 1)),
                      results[Len(results)])

\* the for loop of QualityChecker.run from the index-th generator on:
\* [kind, val, storage]
RECURSIVE RunGenerators_SkipFailed(_, _, _, _, _)
RunGenerators_SkipFailed(st, generators, outcomes, index, results) ==
    IF index > Len(outcomes) THEN [kind |-> "ok", val |-> results, storage |-> st]
    ELSE LET text == outcomes[index].text
             calc == CalculatePerplexity(st, text)
         IN  IF outcomes[index].kind # "ok" \/ text = <<>>
             THEN RunGenerators_SkipFailed(st, generators, outcomes, index + 1, results)
             ELSE IF calc.kind # "ok"
                  THEN RunGenerators_SkipFailed(calc.storage, generators, outcomes,
                                                index + 1, results)
             ELSE RunGenerators_SkipFailed(calc.storage, generators, outcomes, index + 1,
                      Append(results, [text |-> text, perplexity |-> calc.val,
                                       type |-> generators[index]]))

\* (exp() of a finite number is not 0.0, so "if not perplexity" never raises)
RECURSIVE RunGenerators(_, _, _, _, _)
RunGenerators(st, generators, outcomes, index, results) ==
    IF index > Len(generators) THEN [kind |-> "ok", val |-> results, storage |-> st]
    ELSE LET text == outcomes[index].text
             calc == CalculatePerplexity(st, text)
         IN  IF outcomes[index].kind # "ok"
             THEN [kind |-> outcomes[index].kind, val |-> <<>>, storage |-> st]
             ELSE IF text = <<>>
                  THEN [kind |-> "ValueError", val |-> <<>>, storage |-> st]
             ELSE IF calc.kind # "ok"
                  THEN [kind |-> calc.kind, val |-> <<>>, storage |-> calc.storage]
             ELSE RunGenerators(calc.storage, generators, outcomes, index + 1,
                      Append(results, [text |-> text, perplexity |-> calc.val,
                                       type |-> generators[index]]))

\* what the generators of a dictionary answer to run(seq_len, prompt), in the
\* order they are run
GeneratorOutcomes(generators) == OutcomeRuns(Len(generators), GeneratedTexts)

\* the caller has the outcome of a call and goes on
Finished ==
    /\ pc' = "done"
    /\ seq_len' = 0
    /\ encoded' = <<>>
    /\ steps' = <<>>
    /\ UNCHANGED <<n_gram_size, lm, p_value>>

\* QualityChecker._calculate_perplexity
CalculatePerplexityCall(generated_text) ==
    /\ pc = "idle"
    /\ call' = [op |-> "QualityChecker._calculate_perplexity", text |-> generated_text]
    /\ LET calc == CalculatePerplexity(storage, generated_text)
       IN  /\ ret' = IF calc.kind = "ok" THEN ReturnNumber(calc.val)
                                         ELSE Raise(calc.kind)
           /\ storage' = calc.storage
    /\ Finished

\* QualityChecker.run, the generators answering outcomes
QualityCheckerRun(sl, prompt, generators, outcomes) ==
    /\ pc = "idle"
    /\ call' = [op |-> "QualityChecker.run", seq_len |-> sl, prompt |-> prompt,
                generators |-> generators, outcomes |-> outcomes]
    /\ IF ~ValidArguments(sl, prompt)
       THEN /\ ret' = Raise("ValueError")
            /\ UNCHANGED storage
       ELSE LET run == RunGenerators(storage, generators, outcomes, 1, <<>>)
            IN  /\ ret' = IF run.kind = "ok" THEN ReturnResults(SortedResults(run.val))
                                             ELSE Raise(run.kind)
                /\ storage' = run.storage
    /\ Finished

\* the caller goes on to its next call
Continue ==
    /\ pc = "done"
    /\ pc' = "idle"
    /\ call' = [op |-> "none"]
    /\ ret' = NoOutcome
    /\ seq_len' = 0
    /\ encoded' = <<>>
    /\ steps' = <<>>
    /\ UNCHANGED <<storage, n_gram_size, lm, p_value>>

(***************************************************************************)
(* Examiner.                                                               *)
(***************************************************************************)
\* _questions_and_answers after _load_from_json, in the order of the file:
\* "a b" asked at 2 and at 1, "b a" asked at 2
QuestionsAndAnswers ==
    << [question |-> <<"a", " ", "b">>, location |-> 2,
        answer |-> <<"a", " ", "c", " ", "b">>],
       [question |-> <<"b", " ", "a">>, location |-> 2,
        answer |-> <<"B", " ", "c", " ", "a">>],
       [question |-> <<"a", " ", "b">>, location |-> 1,
        answer |-> <<"B">>] >>

\* provide_questions
ProvideQuestions ==
    [i \in 1..Len(QuestionsAndAnswers) |->
        <<QuestionsAndAnswers[i].question, QuestionsAndAnswers[i].location>>]

\* next(ans for (que, loc), ans in items if que == question), from the
\* index-th item on: <<>> stands for StopIteration
RECURSIVE ActualAnswer(_, _)
ActualAnswer(question, index) ==
    IF index > Len(QuestionsAndAnswers) THEN <<>>
    ELSE IF QuestionsAndAnswers[index].question = question
         THEN <<QuestionsAndAnswers[index].answer>>
         ELSE ActualAnswer(question, index + 1)

\* actual_answer.lower() == answer.lower()
SameAnswer_CaseSensitive(actual_answer, answer) == actual_answer = answer

SameAnswer(actual_answer, answer) == Lower(actual_answer) = Lower(answer)

\* the for loop of assess_exam over the questions still to visit:
\* [kind, true_answers]
RECURSIVE CountTrueAnswers(_, _, _)
CountTrueAnswers(answers, questions, true_answers) ==
    IF questions = {} THEN [kind |-> "ok", true_answers |-> true_answers]
    ELSE LET question == CHOOSE q \in questions : TRUE
             actual_answer == ActualAnswer(question, 1)
         IN  IF actual_answer = <<>>
             THEN [kind |-> "StopIteration", true_answers |-> true_answers]
             ELSE CountTrueAnswers(answers, questions \ {question},
                      IF SameAnswer(actual_answer[1], answers[question])
                      THEN true_answers + 1 ELSE true_answers)

\* the dictionaries {question: answer} handed to assess_exam
ExamQuestions == {<<"a", " ", "b">>, <<"b", " ", "a">>, <<"c">>}

ExamAnswers == {<<"A", " ", "c", " ", "b">>, <<"a", " ", "c", " ", "b">>, <<"B">>}

AnswerDicts == UNION {[questions -> ExamAnswers] : questions \in SUBSET ExamQuestions}

\* assess_exam; the accuracy true_answers / len(answers) is [num, den]
AssessExam(answers) ==
    /\ pc = "idle"
    /\ call' = [op |-> "Examiner.assess_exam", answers |-> answers]
    /\ IF DOMAIN answers = {}
       THEN ret' = Raise("ValueError")
       ELSE LET count == CountTrueAnswers(answers, DOMAIN answers, 0)
            IN  ret' = IF count.kind # "ok" THEN Raise(count.kind)
                       ELSE ReturnNumber([num |-> count.true_answers,
                                          den |-> Cardinality(DOMAIN answers)])
    /\ UNCHANGED storage
    /\ Finished

(***************************************************************************)
(* GeneratorRuleStudent.                                                   *)
(***************************************************************************)
\* the texts the student's generator returns: "A c.", "A c!", "A c?", "A c", ""
StudentTexts ==
    { <<"A", " ", "c", ".">>, <<"A", " ", "c", "!">>, <<"A", " ", "c", "?">>,
      <<"A", " ", "c">>, <<>> }

\* the lists of tasks handed to take_exam
RECURSIVE TaskLists(_)
TaskLists(count) ==
    IF count = 0 THEN {<<>>}
    ELSE TaskLists(count - 1)
         \cup {Append(tasks, ProvideQuestions[i]) :
                 tasks \in {t \in TaskLists(count - 1) : Len(t) = count - 1},
                 i \in 1..Len(ProvideQuestions)}

\* if answer[-1] == '.': answer = f"{answer[:-1]} "
StripFinalMark_NoSpace(answer) ==
    IF answer[Len(answer)] = "." THEN SubSeq(answer, 1, Len(answer) - 1) ELSE answer

StripFinalMark(answer) ==
    IF answer[Len(answer)] = "."
    THEN SubSeq(answer, 1, Len(answer) - 1) \o <<" ">>
    ELSE answer

\* answers[question] = answer, the dictionary being the sequence of its
\* <<question, answer>> items: a new key goes last, a known key keeps its place
SetItem(answers, question, answer) ==
    IF \E i \in 1..Len(answers) : answers[i][1] = question
    THEN [i \in 1..Len(answers) |->
             IF answers[i][1] = question THEN <<question, answer>> ELSE answers[i]]
    ELSE Append(answers, <<question, answer>>)

\* the for loop of take_exam from the index-th task on: [kind, val]
RECURSIVE TakeExamLoop(_, _, _, _)
TakeExamLoop(tasks, outcomes, index, answers) ==
    IF index > Len(tasks) THEN ReturnAnswers(answers)
    ELSE LET question == tasks[index][1]
             position == tasks[index][2]
             answer == outcomes[index].text
         IN  IF outcomes[index].kind # "ok" THEN Raise(outcomes[index].kind)
             ELSE IF answer = <<>> THEN Raise("ValueError")
             ELSE TakeExamLoop(tasks, outcomes, index + 1,
                      SetItem(answers, question,
                              StripFinalMark(answer)
                                  \o SubSeq(question, position + 1, Len(question))))

\* take_exam, the generator answering outcomes to run(1, question[:position])
TakeExam(tasks, outcomes) ==
    /\ pc = "idle"
    /\ call' = [op |-> "GeneratorRuleStudent.take_exam", tasks |-> tasks,
                outcomes |-> outcomes]
    /\ ret' = IF tasks = <<>> THEN Raise("ValueError")
              ELSE TakeExamLoop(tasks, outcomes, 1, <<>>)
    /\ UNCHANGED storage
    /\ Finished

(***************************************************************************)
(* The program.                                                            *)
(***************************************************************************)
PValues == {5, 7, 10}

Init ==
    /\ storage = <<EoW, <<"a">>, <<"b">>>>
    /\ n_gram_size \in 1..MaxN
    /\ lm \in LanguageModels
    /\ p_value \in PValues
    /\ pc = "idle"
    /\ seq_len = 0
    /\ encoded = <<>>
    /\ steps = <<>>
    /\ call = [op |-> "none"]
    /\ ret = NoOutcome

Next ==
    \/ \E sl \in (-1)..MaxSeqLen, prompt \in Prompts : TopPRun(sl, prompt)
    \/ TopPIterate
    \/ TopPReturn
    \/ \E generated_text \in GeneratedTexts : CalculatePerplexityCall(generated_text)
    \/ \E sl \in 0..1, prompt \in {<<>>, <<"a">>}, generators \in GeneratorDicts :
          \E outcomes \in IF ValidArguments(sl, prompt)
                          THEN GeneratorOutcomes(generators)
                          ELSE {<<>>} :
              QualityCheckerRun(sl, prompt, generators, outcomes)
    \/ \E answers \in AnswerDicts : AssessExam(answers)
    \/ \E tasks \in TaskLists(MaxTasks) :
          \E outcomes \in OutcomeRuns(Len(tasks), StudentTexts) : TakeExam(tasks, outcomes)
    \/ Continue

Spec == Init /\ [][Next]_vars

FairSpec == Spec /\ WF_vars(TopPIterate) /\ WF_vars(TopPReturn)

(***************************************************************************)
(* Properties of TopPGenerator.run.                                        *)
(***************************************************************************)
IsTopPRun == call.op = "TopPGenerator.run"

\* the tokens of the encoded prompt (the storage keeps the ids it has given)
PromptIds == Encode(storage, call.prompt).ids

\* the tokens appended so far, in order
RECURSIVE Picks(_)
Picks(history) ==
    IF history = <<>> THEN <<>> ELSE history[1].pick \o Picks(Tail(history))

\* total probability of a set of pairs
RECURSIVE Mass(_)
Mass(d) ==
    IF d = {} THEN 0
    ELSE LET x == CHOOSE y \in d : TRUE IN x[2] + Mass(d \ {x})

\* the pairs that come strictly before x in descending order of probability,
\* ties in descending order of token
Before(d, x) == {y \in d : y[2] > x[2] \/ (y[2] = x[2] /\ y[1] > x[1])}

\* the smallest prefix of that order whose mass is at least p: x belongs to
\* it when the pairs before x together stay below p
Nucleus(d, p) ==
    IF Mass(d) < p THEN {} ELSE {x \in d : Mass(Before(d, x)) < p}

\* C1: every token TopPGenerator.run appends belongs to the nucleus of the
\* distribution it was drawn from (the smallest prefix, in descending order of
\* probability with ties in descending order of token, whose mass is >= p),
\* and the sequence is the encoded prompt followed by the appended tokens.
C1_PickInNucleus ==
    IsTopPRun =>
        /\ p_value > 0 /\ p_value <= 10
        /\ \A i \in 1..Len(steps) :
              steps[i].pick # <<>> =>
                  \E x \in Nucleus(steps[i].tokens.d, p_value) : x[1] = steps[i].pick[1]
        /\ pc # "done" => encoded = PromptIds \o Picks(steps)

\* {A: 0.5, B: 0.3, C: 0.2} with p = 0.7: B was appended; and a tie at the
\* edge of the nucleus was decided
C1_Witness ==
    /\ IsTopPRun
    /\ p_value = 7
    /\ \E i \in 1..Len(steps) : steps[i].tokens.d = DExample /\ steps[i].pick = <<2>>
    /\ encoded = PromptIds \o Picks(steps)
    /\ Nucleus(DExample, 7) = {<<1, 5>>, <<2, 3>>}
    /\ Nucleus(DTie, 5) = {<<2, 5>>}

\* C2: an empty distribution ends the loop at that step without an error, and
\* the run returns the decoding of the encoded prompt followed by exactly the
\* tokens appended before.
C2_EmptyStops ==
    IsTopPRun =>
        \A i \in 1..Len(steps) :
            (~steps[i].tokens.none /\ steps[i].tokens.d = {}) =>
                /\ i = Len(steps)
                /\ steps[i].pick = <<>>
                /\ Len(Picks(steps)) < call.seq_len
                /\ pc \in {"decode", "done"}
                /\ pc = "decode" => ret = Running /\ encoded = PromptIds \o Picks(steps)
                /\ pc = "done" =>
                      /\ ret.kind = "ok"
                      /\ ret.text = Decode(storage, PromptIds \o Picks(steps))
                      /\ ret.text # <<>>

\* a run that appended a token, then met an empty distribution, has returned
C2_Witness ==
    /\ IsTopPRun
    /\ pc = "done"
    /\ Len(steps) = 2
    /\ steps[1].pick # <<>>
    /\ steps[2].tokens = Tokens({})
    /\ call.seq_len = 2
    /\ ret.kind = "ok"

\* C6: TopPGenerator.run raises ValueError exactly when the prompt is empty,
\* seq_len <= 0, the prompt encodes to nothing, or the model answers None at
\* some step (the first or a later one); an empty distribution is no error.
C6_ErrorCases ==
    IsTopPRun =>
        /\ pc # "done" =>
              /\ ret = Running
              /\ \A i \in 1..Len(steps) : ~steps[i].tokens.none
        /\ pc = "done" =>
              /\ ret.kind \in {"ok", "ValueError"}
              /\ ret.kind = "ValueError" <=>
                    \/ call.prompt = <<>>
                    \/ call.seq_len <= 0
                    \/ Tokenize(call.prompt) = <<>>
                    \/ \E i \in 1..Len(steps) : steps[i].tokens.none

\* None after a token has been appended raises
C6_Witness ==
    /\ IsTopPRun
    /\ pc = "done"
    /\ ret.kind = "ValueError"
    /\ Len(steps) = 2
    /\ steps[1].pick # <<>>
    /\ steps[2].tokens.none

\* C10 (safety part): the run appends at most seq_len tokens, and exactly
\* seq_len when no answer of the model was None and every distribution had a
\* total mass of at least p.
C10_Bounded ==
    (IsTopPRun /\ call.seq_len > 0) =>
        /\ Len(Picks(steps)) <= call.seq_len
        /\ seq_len = call.seq_len - Len(Picks(steps)) \/ ret.kind = "ValueError"
        /\ (/\ pc = "done"
            /\ ret.kind = "ok"
            /\ \A i \in 1..Len(steps) :
                  ~steps[i].tokens.none /\ Mass(steps[i].tokens.d) >= p_value)
           => /\ Len(Picks(steps)) = call.seq_len
              /\ Len(steps) = call.seq_len

\* one step of the loop leaves the sequence alone or appends one token to it
C10_Grows ==
    pc \in {"loop", "decode"} =>
        \/ encoded' = encoded
        \/ /\ Len(encoded') = Len(encoded) + 1
           /\ SubSeq(encoded', 1, Len(encoded)) = encoded

\* C10: TopPGenerator.run terminates; its sequence only grows, by one token
\* per step, keeping the encoded prompt as a prefix; it appends at most
\* seq_len tokens, and exactly seq_len when every distribution returned is
\* non-null and has a total mass of at least p.
C10_RunTerminates ==
    /\ []C10_Bounded
    /\ [][C10_Grows]_vars
    /\ (pc \in {"loop", "decode"}) ~> (pc = "done")

\* a run that was asked for two tokens and appended two
C10_Witness ==
    /\ IsTopPRun
    /\ pc = "done"
    /\ ret.kind = "ok"
    /\ call.seq_len = 2
    /\ Len(Picks(steps)) = 2

\* C10 as stated: exactly seq_len tokens whenever every distribution returned
\* is non-null and non-empty, whatever its total mass
C10_Original ==
    (IsTopPRun /\ call.seq_len > 0) =>
        /\ Len(Picks(steps)) <= call.seq_len
        /\ (/\ pc = "done"
            /\ ret.kind = "ok"
            /\ \A i \in 1..Len(steps) :
                  ~steps[i].tokens.none /\ steps[i].tokens.d # {})
           => Len(Picks(steps)) = call.seq_len

(***************************************************************************)
(* Properties of QualityChecker.                                           *)
(***************************************************************************)
IsCalculatePerplexity == call.op = "QualityChecker._calculate_perplexity"

IsQualityCheckerRun == call.op = "QualityChecker.run"

\* the positions (counted from 1) of the tokens _calculate_perplexity scores
ScoredPositions(ids) == {i \in 1..Len(ids) : i >= n_gram_size}

\* the model's answer for the context of position i
AnswerAt(ids, i) == GenerateNextToken(SubSeq(ids, i - n_gram_size + 1, i - 1))

\* the probabilities the model gives the scored tokens, as <<position, probability>>
ScoredProbabilities(ids) ==
    {<<i, GetProbability(AnswerAt(ids, i).d, ids[i])>> : i \in ScoredPositions(ids)}

\* the text is longer than the order of the model and every scored token has
\* a non-zero probability in the model's distribution for its context
GeneratedUnderModel(ids) ==
    /\ Len(ids) > n_gram_size
    /\ \A i \in ScoredPositions(ids) : ~AnswerAt(ids, i).none
    /\ \A x \in ScoredProbabilities(ids) : x[2] > 0

\* minus the sum of the logarithms of a set of <<position, probability>>
RECURSIVE MinusLogSum(_)
MinusLogSum(scored) ==
    IF scored = {} THEN 0
    ELSE LET x == CHOOSE y \in scored : TRUE
         IN  MinusLogSum(scored \ {x}) - LogMilli(x[2])

\* C7: for a text longer than the model's order whose scored tokens all have
\* a non-zero probability, at least one of them a probability below 1,
\* _calculate_perplexity returns exp(-sum of logs / (length - n)), a finite
\* positive number.
C7_PerplexityPositive ==
    IsCalculatePerplexity =>
        LET ids == Encode(storage, call.text).ids
        IN  (/\ GeneratedUnderModel(ids)
             /\ \E x \in ScoredProbabilities(ids) : x[2] < 10)
            => /\ ret.kind = "ok"
               /\ ret.number.den = Len(ids) - n_gram_size
               /\ ret.number.den > 0
               /\ ret.number.num = MinusLogSum(ScoredProbabilities(ids))
               /\ ret.number.num > 0

\* "A a." under the model of the example: probabilities 0.5 and 0.2
C7_Witness ==
    /\ IsCalculatePerplexity
    /\ n_gram_size = 2
    /\ call.text = <<"A", " ", "a", ".">>
    /\ ScoredProbabilities(Encode(storage, call.text).ids) = {<<2, 5>>, <<3, 2>>}
    /\ ret = ReturnNumber([num |-> 693 + 1609, den |-> 1])

\* C7 as stated: a finite positive number for every such text, also when
\* every scored token has probability 1
C7_Original ==
    IsCalculatePerplexity =>
        (GeneratedUnderModel(Encode(storage, call.text).ids)
            => ret.kind = "ok" /\ ret.number.den > 0)

\* C8: _calculate_perplexity fails with ValueError only; it does so when the
\* sum of logarithms is zero and when length - n is zero or negative.
C8_OnlyValueError ==
    IsCalculatePerplexity =>
        LET ids == Encode(storage, call.text).ids
        IN  /\ ret.kind \in {"ok", "ValueError"}
            /\ Len(ids) - n_gram_size <= 0 => ret.kind = "ValueError"

\* C3: a successful QualityChecker.run returns one result per registered
\* generator, in ascending order of (perplexity, type): perplexities never
\* decrease, and equal perplexities come in increasing order of type.
C3_SortedResults ==
    (IsQualityCheckerRun /\ ret.kind = "ok") =>
        LET results == ret.results
            registered == {call.generators[i] : i \in 1..Len(call.generators)}
        IN  /\ Len(results) = Cardinality(registered)
            /\ {results[i].type : i \in 1..Len(results)} = registered
            /\ Len(call.outcomes) = Len(call.generators)
            /\ \A i \in 1..Len(results) : \E k \in 1..Len(call.generators) :
                  /\ call.generators[k] = results[i].type
                  /\ call.outcomes[k] = ReturnText(results[i].text)
                  /\ results[i].perplexity.den > 0
            /\ \A i, j \in 1..Len(results) :
                  i < j =>
                      /\ ~PerplexityLess(results[j].perplexity, results[i].perplexity)
                      /\ PerplexityEqual(results[i].perplexity, results[j].perplexity)
                            => results[i].type < results[j].type

\* three results: two of equal perplexity registered in descending order of
\* type, and one of another perplexity registered first
C3_Witness ==
    /\ IsQualityCheckerRun
    /\ ret.kind = "ok"
    /\ Len(ret.results) = 3
    /\ call.generators = <<1, 2, 0>>
    /\ PerplexityEqual(ret.results[1].perplexity, ret.results[2].perplexity)
    /\ PerplexityLess(ret.results[2].perplexity, ret.results[3].perplexity)
    /\ ret.results[3].type = 1

\* the generator at position k raises, returns no text, or returns a text
\* whose perplexity cannot be computed
StrategyFails(k) ==
    \/ call.outcomes[k].kind # "ok"
    \/ call.outcomes[k].text = <<>>
    \/ CalculatePerplexity(storage, call.outcomes[k].text).kind # "ok"

\* C9: when any registered generator fails, wherever it stands in the
\* dictionary, QualityChecker.run ends with an error and returns no list.
C9_FailFast ==
    IsQualityCheckerRun =>
        /\ ret.kind \in {"ok", "ValueError", "ZeroDivisionError"}
        /\ (\E k \in 1..Len(call.outcomes) : StrategyFails(k))
              => ret.kind # "ok" /\ ret.results = <<>>

\* two generators were scored, then the third one failed
C9_Witness ==
    /\ IsQualityCheckerRun
    /\ ValidArguments(call.seq_len, call.prompt)
    /\ Len(call.generators) = 3
    /\ Len(call.outcomes) = 3
    /\ ~StrategyFails(1)
    /\ ~StrategyFails(2)
    /\ StrategyFails(3)
    /\ ret.kind = "ValueError"

(***************************************************************************)
(* Properties of GeneratorRuleStudent.take_exam and Examiner.assess_exam.  *)
(***************************************************************************)
IsTakeExam == call.op = "GeneratorRuleStudent.take_exam"

IsAssessExam == call.op = "Examiner.assess_exam"

\* the task at position i is the last one asking its question
LastTaskOfQuestion(i) ==
    \A j \in 1..Len(call.tasks) : call.tasks[j][1] = call.tasks[i][1] => j <= i

\* filled is the generated answer, its final mark (one of marks) replaced by
\* one space when it has one, followed by the rest of the question
Spliced(filled, answer, rest, marks) ==
    IF answer[Len(answer)] \in marks
    THEN /\ Len(filled) = Len(answer) + Len(rest)
         /\ \A k \in 1..(Len(answer) - 1) : filled[k] = answer[k]
         /\ filled[Len(answer)] = " "
         /\ \A k \in 1..Len(rest) : filled[Len(answer) + k] = rest[k]
    ELSE filled = answer \o rest

\* the returned dictionary's entry for a question
Filled(question) ==
    ret.answers[CHOOSE k \in 1..Len(ret.answers) : ret.answers[k][1] = question][2]

\* every task's entry of the returned dictionary is spliced with these marks
AllSpliced(marks) ==
    (IsTakeExam /\ ret.kind = "ok") =>
        /\ {ret.answers[k][1] : k \in 1..Len(ret.answers)}
              = {call.tasks[i][1] : i \in 1..Len(call.tasks)}
        /\ \A i \in 1..Len(call.tasks) :
              LastTaskOfQuestion(i) =>
                  Spliced(Filled(call.tasks[i][1]), call.outcomes[i].text,
                          SubSeq(call.tasks[i][1], call.tasks[i][2] + 1,
                                 Len(call.tasks[i][1])),
                          marks)

KnownQuestions ==
    {QuestionsAndAnswers[i].question : i \in 1..Len(QuestionsAndAnswers)}

\* the expected answer of a known question: that of its first entry
ExpectedAnswer(question) ==
    LET first == CHOOSE i \in 1..Len(QuestionsAndAnswers) :
                    /\ QuestionsAndAnswers[i].question = question
                    /\ \A j \in 1..(i - 1) : QuestionsAndAnswers[j].question # question
    IN  QuestionsAndAnswers[first].answer

\* C5: assess_exam of a non-empty dictionary of known questions returns the
\* number of answers equal to the expected one up to letter case, divided by
\* the number of answers, a value in [0, 1]; of an empty one, ValueError.
C5_Accuracy ==
    IsAssessExam =>
        LET answers == call.answers
            correct == {q \in DOMAIN answers :
                           Lower(answers[q]) = Lower(ExpectedAnswer(q))}
        IN  /\ DOMAIN answers = {} => ret.kind = "ValueError"
            /\ (DOMAIN answers # {} /\ DOMAIN answers \subseteq KnownQuestions) =>
                  /\ ret = ReturnNumber([num |-> Cardinality(correct),
                                         den |-> Cardinality(DOMAIN answers)])
                  /\ 0 <= ret.number.num
                  /\ ret.number.num <= ret.number.den

\* "A c b" for the expected "a c b" counts, "B" for "B c a" does not: 1 / 2
C5_Witness ==
    /\ IsAssessExam
    /\ DOMAIN call.answers = {<<"a", " ", "b">>, <<"b", " ", "a">>}
    /\ call.answers[<<"a", " ", "b">>] = <<"A", " ", "c", " ", "b">>
    /\ call.answers[<<"b", " ", "a">>] = <<"B">>
    /\ ret = ReturnNumber([num |-> 1, den |-> 2])

====
